---- MODULE Spec2Model ----
(***************************************************************************)
(* The request router of the AthleteAI demo server (src/server.py): the    *)
(* handler class AthleteAIHandler, its JSON body parsing, the four POST    *)
(* handlers, the two GET handlers and the header injection of end_headers. *)
(*                                                                         *)
(* Text is held as sequences of one-character strings, so that startswith, *)
(* split and the f-string concatenations are computed as the code computes *)
(* them.  A request body is a sequence of lexical units (a brace, a comma, *)
(* a string literal, a run of bytes that is not UTF-8, ...); lengths, and  *)
(* so Content-Length, are counted in these units.                          *)
(***************************************************************************)
EXTENDS Integers, Sequences, FiniteSets, TLC

VARIABLES
    pc,        \* where the (single-threaded) server is: "idle", "handle", "api_post", "done"
    req,       \* the request being handled: method, path, Content-Length header, body
    eof,       \* the client has shut down its sending side of the connection
    conn,      \* what the handler has done on the connection so far
    now,       \* the clock read by datetime.now()
    log        \* the exchanges completed so far (request, time, responses)

vars == <<pc, req, eof, conn, now, log>>

---------------------------------------------------------------------------
(* Bounds of the model.                                                    *)

\* json.loads and json.dumps raise RecursionError beyond this nesting depth
\* (sys.getrecursionlimit() in the interpreter, scaled down).
RecursionLimit == 3
\* The clock advances at most this far.
MaxClock == 1
\* The number of completed exchanges kept in the log.
MaxLog == 2

---------------------------------------------------------------------------
(* Text.                                                                   *)

\* str.startswith
StartsWith(s, p) == Len(s) >= Len(p) /\ SubSeq(s, 1, Len(p)) = p

RECURSIVE IndexOf(_, _, _)
IndexOf(s, c, i) ==
    IF i > Len(s) THEN 0 ELSE IF s[i] = c THEN i ELSE IndexOf(s, c, i + 1)

\* s.split(c)[0]
SplitFirst(s, c) ==
    LET i == IndexOf(s, c, 1) IN IF i = 0 THEN s ELSE SubSeq(s, 1, i - 1)

Digits == <<"0", "1", "2", "3", "4", "5", "6", "7", "8", "9">>

IsDigit(c) == \E d \in 1..10 : Digits[d] = c

DigitVal(c) == (CHOOSE d \in 1..10 : Digits[d] = c) - 1

\* the text of a non-negative number, as an f-string formats it
RECURSIVE Str(_)
Str(n) == IF n < 10 THEN <<Digits[n + 1]>> ELSE Str(n \div 10) \o <<Digits[(n % 10) + 1]>>

RECURSIVE DigitsVal(_, _)
DigitsVal(s, acc) ==
    IF s = <<>> THEN acc ELSE DigitsVal(Tail(s), acc * 10 + DigitVal(Head(s)))

\* A header that is absent reads as None.
NoHeader == [present |-> FALSE, value |-> <<>>]
Header(v) == [present |-> TRUE, value |-> v]

\* int(self.headers['Content-Length']): TypeError on None, ValueError on text
\* that is not an optionally signed run of digits.
int(h) ==
    IF ~h.present THEN [exc |-> "TypeError", n |-> 0]
    ELSE LET s == h.value
             signed == s # <<>> /\ s[1] \in {"+", "-"}
             ds == IF signed THEN Tail(s) ELSE s
         IN  IF ds # <<>> /\ \A i \in 1..Len(ds) : IsDigit(ds[i])
             THEN [exc |-> "",
                   n |-> IF signed /\ s[1] = "-" THEN 0 - DigitsVal(ds, 0)
                         ELSE DigitsVal(ds, 0)]
             ELSE [exc |-> "ValueError", n |-> 0]

\* Paths matched by the router (src/server.py:39-89).
API_PREFIX == <<"/", "a", "p", "i", "/">>
PATH_HEALTH == <<"/", "a", "p", "i", "/", "h", "e", "a", "l", "t", "h">>
PATH_CONFIG == <<"/", "a", "p", "i", "/", "c", "o", "n", "f", "i", "g">>
PATH_LOGIN == <<"/", "a", "p", "i", "/", "a", "u", "t", "h", "/", "l", "o", "g", "i", "n">>
PATH_REGISTER == <<"/", "a", "p", "i", "/", "a", "u", "t", "h", "/", "r", "e", "g", "i", "s", "t", "e", "r">>
PATH_SESSIONS == <<"/", "a", "p", "i", "/", "t", "r", "a", "i", "n", "i", "n", "g", "/", "s", "e", "s", "s", "i", "o", "n", "s">>
PATH_ANALYSIS == <<"/", "a", "p", "i", "/", "a", "i", "/", "a", "n", "a", "l", "y", "s", "i", "s">>

\* Literals of the demo table (src/server.py:105-109).
EMAIL_ATHLETE == <<"a", "t", "h", "l", "e", "t", "e", "@", "d", "e", "m", "o", ".", "c", "o", "m">>
EMAIL_COACH == <<"c", "o", "a", "c", "h", "@", "d", "e", "m", "o", ".", "c", "o", "m">>
EMAIL_ADMIN == <<"a", "d", "m", "i", "n", "@", "d", "e", "m", "o", ".", "c", "o", "m">>
PASSWORD123 == <<"p", "a", "s", "s", "w", "o", "r", "d", "1", "2", "3">>
NAME_ATHLETE == <<"D", "e", "m", "o", " ", "A", "t", "h", "l", "e", "t", "e">>
NAME_COACH == <<"D", "e", "m", "o", " ", "C", "o", "a", "c", "h">>
NAME_ADMIN == <<"D", "e", "m", "o", " ", "A", "d", "m", "i", "n">>
ROLE_ATHLETE == <<"a", "t", "h", "l", "e", "t", "e">>
ROLE_COACH == <<"c", "o", "a", "c", "h">>
ROLE_ADMIN == <<"a", "d", "m", "i", "n">>

\* Keys and texts of the JSON bodies (src/server.py:55-67, 101-161).
K_email == <<"e", "m", "a", "i", "l">>
K_password == <<"p", "a", "s", "s", "w", "o", "r", "d">>
K_name == <<"n", "a", "m", "e">>
K_role == <<"r", "o", "l", "e">>
K_success == <<"s", "u", "c", "c", "e", "s", "s">>
K_user == <<"u", "s", "e", "r">>
K_id == <<"i", "d">>
K_token == <<"t", "o", "k", "e", "n">>
K_error == <<"e", "r", "r", "o", "r">>
K_sessionId == <<"s", "e", "s", "s", "i", "o", "n", "I", "d">>
K_analysisId == <<"a", "n", "a", "l", "y", "s", "i", "s", "I", "d">>
K_message == <<"m", "e", "s", "s", "a", "g", "e">>
K_status == <<"s", "t", "a", "t", "u", "s">>
K_timestamp == <<"t", "i", "m", "e", "s", "t", "a", "m", "p">>
K_appName == <<"a", "p", "p", "N", "a", "m", "e">>
K_version == <<"v", "e", "r", "s", "i", "o", "n">>
K_features == <<"f", "e", "a", "t", "u", "r", "e", "s">>
K_aiTesting == <<"a", "i", "T", "e", "s", "t", "i", "n", "g">>
K_faceRecognition == <<"f", "a", "c", "e", "R", "e", "c", "o", "g", "n", "i", "t", "i", "o", "n">>
K_offlineMode == <<"o", "f", "f", "l", "i", "n", "e", "M", "o", "d", "e">>
K_pwa == <<"p", "w", "a">>
USER_ == <<"u", "s", "e", "r", "_">>
DEMO_TOKEN_ == <<"d", "e", "m", "o", "_", "t", "o", "k", "e", "n", "_">>
SESSION_ == <<"s", "e", "s", "s", "i", "o", "n", "_">>
ANALYSIS_ == <<"a", "n", "a", "l", "y", "s", "i", "s", "_">>
T_InvalidCredentials == <<"I", "n", "v", "a", "l", "i", "d", " ", "c", "r", "e", "d", "e", "n", "t", "i", "a", "l", "s">>
T_MissingRequiredFields == <<"M", "i", "s", "s", "i", "n", "g", " ", "r", "e", "q", "u", "i", "r", "e", "d", " ", "f", "i", "e", "l", "d", "s">>
T_SessionSaved == <<"T", "r", "a", "i", "n", "i", "n", "g", " ", "s", "e", "s", "s", "i", "o", "n", " ", "s", "a", "v", "e", "d", " ", "s", "u", "c", "c", "e", "s", "s", "f", "u", "l", "l", "y">>
T_AnalysisSaved == <<"A", "I", " ", "a", "n", "a", "l", "y", "s", "i", "s", " ", "s", "a", "v", "e", "d", " ", "s", "u", "c", "c", "e", "s", "s", "f", "u", "l", "l", "y">>
T_healthy == <<"h", "e", "a", "l", "t", "h", "y">>
T_AthleteAI == <<"A", "t", "h", "l", "e", "t", "e", "A", "I">>
T_Version == <<"1", ".", "0", ".", "0">>

---------------------------------------------------------------------------
(* JSON values, as json.loads builds them and json.dumps writes them.      *)

JStr(s) == [t |-> "str", s |-> s, items |-> <<>>, fields |-> <<>>]
JNum(s) == [t |-> "num", s |-> s, items |-> <<>>, fields |-> <<>>]
JTrue == [t |-> "true", s |-> <<>>, items |-> <<>>, fields |-> <<>>]
JFalse == [t |-> "false", s |-> <<>>, items |-> <<>>, fields |-> <<>>]
JNull == [t |-> "null", s |-> <<>>, items |-> <<>>, fields |-> <<>>]
JList(items) == [t |-> "list", s |-> <<>>, items |-> items, fields |-> <<>>]
JDict(fields) == [t |-> "dict", s |-> <<>>, items |-> <<>>, fields |-> fields]
KV(k, v) == [k |-> k, v |-> v]

\* d[k] = v on a dict: the last value of a repeated key wins, in place.
SetField(fields, k, v) ==
    IF \E i \in 1..Len(fields) : fields[i].k = k
    THEN [i \in 1..Len(fields) |-> IF fields[i].k = k THEN KV(k, v) ELSE fields[i]]
    ELSE Append(fields, KV(k, v))

HasKey(d, k) == \E i \in 1..Len(d.fields) : d.fields[i].k = k

\* d.get(k, default)
Get(d, k, default) ==
    IF HasKey(d, k)
    THEN d.fields[CHOOSE i \in 1..Len(d.fields) : d.fields[i].k = k].v
    ELSE default

\* Python truth value: "not x" holds of '', 0, False, None, [] and {}.
Truthy(v) ==
    CASE v.t = "str" -> v.s # <<>>
      [] v.t = "num" -> \E i \in 1..Len(v.s) : v.s[i] \in {"1", "2", "3", "4", "5", "6", "7", "8", "9"}
      [] v.t = "true" -> TRUE
      [] v.t = "list" -> v.items # <<>>
      [] v.t = "dict" -> v.fields # <<>>
      [] OTHER -> FALSE

\* lists and dicts cannot be dict keys ("unhashable type")
Hashable(v) == v.t \notin {"list", "dict"}

RECURSIVE Depth(_)
RECURSIVE MaxDepth(_, _)
RECURSIVE MaxFieldDepth(_, _)
MaxDepth(vs, i) ==
    IF i > Len(vs) THEN 0
    ELSE LET a == Depth(vs[i])
             b == MaxDepth(vs, i + 1)
         IN  IF a > b THEN a ELSE b
MaxFieldDepth(fs, i) ==
    IF i > Len(fs) THEN 0
    ELSE LET a == Depth(fs[i].v)
             b == MaxFieldDepth(fs, i + 1)
         IN  IF a > b THEN a ELSE b
\* nesting depth: 0 for a scalar, 1 for [] and {}
Depth(v) ==
    CASE v.t = "list" -> 1 + MaxDepth(v.items, 1)
      [] v.t = "dict" -> 1 + MaxFieldDepth(v.fields, 1)
      [] OTHER -> 0

Tok(k, s) == [k |-> k, s |-> s]
P(k) == Tok(k, <<>>)

\* The text json.dumps writes for a value that is not too deep.
RECURSIVE Encode(_)
RECURSIVE EncodeItems(_, _)
RECURSIVE EncodeFields(_, _)
EncodeItems(items, i) ==
    IF i > Len(items) THEN <<>>
    ELSE (IF i > 1 THEN <<P(",")>> ELSE <<>>) \o Encode(items[i]) \o EncodeItems(items, i + 1)
EncodeFields(fields, i) ==
    IF i > Len(fields) THEN <<>>
    ELSE (IF i > 1 THEN <<P(",")>> ELSE <<>>)
         \o <<Tok("str", fields[i].k), P(":")>> \o Encode(fields[i].v)
         \o EncodeFields(fields, i + 1)
Encode(v) ==
    CASE v.t = "list" -> <<P("[")>> \o EncodeItems(v.items, 1) \o <<P("]")>>
      [] v.t = "dict" -> <<P("{")>> \o EncodeFields(v.fields, 1) \o <<P("}")>>
      [] v.t \in {"str", "num"} -> <<Tok(v.t, v.s)>>
      [] OTHER -> <<P(v.t)>>

\* json.dumps(data): RecursionError when the value nests too deep.
dumps(v) ==
    IF Depth(v) > RecursionLimit THEN [exc |-> "RecursionError", text |-> <<>>]
    ELSE [exc |-> "", text |-> Encode(v)]

\* The scanner of json.loads; lim is the nesting depth beyond which it raises
\* RecursionError.  st is "ok", "JSONDecodeError" or "RecursionError".
Scan(st, v, nx) == [st |-> st, val |-> v, next |-> nx]

RECURSIVE ScanValue(_, _, _, _)
RECURSIVE ScanItems(_, _, _, _, _)
RECURSIVE ScanMembers(_, _, _, _, _)
ScanItems(toks, i, d, lim, acc) ==
    LET r == ScanValue(toks, i, d, lim) IN
    IF r.st # "ok" THEN r
    ELSE IF r.next > Len(toks) THEN Scan("JSONDecodeError", JNull, r.next)
    ELSE IF toks[r.next].k = "," THEN ScanItems(toks, r.next + 1, d, lim, Append(acc, r.val))
    ELSE IF toks[r.next].k = "]" THEN Scan("ok", JList(Append(acc, r.val)), r.next + 1)
    ELSE Scan("JSONDecodeError", JNull, r.next)
ScanMembers(toks, i, d, lim, acc) ==
    IF i + 1 > Len(toks) \/ toks[i].k # "str" \/ toks[i + 1].k # ":"
    THEN Scan("JSONDecodeError", JNull, i)
    ELSE LET r == ScanValue(toks, i + 2, d, lim)
             fs == SetField(acc, toks[i].s, r.val)
         IN  IF r.st # "ok" THEN r
             ELSE IF r.next > Len(toks) THEN Scan("JSONDecodeError", JNull, r.next)
             ELSE IF toks[r.next].k = "," THEN ScanMembers(toks, r.next + 1, d, lim, fs)
             ELSE IF toks[r.next].k = "}" THEN Scan("ok", JDict(fs), r.next + 1)
             ELSE Scan("JSONDecodeError", JNull, r.next)
ScanValue(toks, i, d, lim) ==
    IF i > Len(toks) THEN Scan("JSONDecodeError", JNull, i)
    ELSE LET k == toks[i].k IN
         CASE k = "str" -> Scan("ok", JStr(toks[i].s), i + 1)
           [] k = "num" -> Scan("ok", JNum(toks[i].s), i + 1)
           [] k = "true" -> Scan("ok", JTrue, i + 1)
           [] k = "false" -> Scan("ok", JFalse, i + 1)
           [] k = "null" -> Scan("ok", JNull, i + 1)
           [] k \in {"[", "{"} ->
                IF d + 1 > lim THEN Scan("RecursionError", JNull, i)
                ELSE IF i + 1 <= Len(toks) /\ toks[i + 1].k = (IF k = "[" THEN "]" ELSE "}")
                THEN Scan("ok", IF k = "[" THEN JList(<<>>) ELSE JDict(<<>>), i + 2)
                ELSE IF k = "[" THEN ScanItems(toks, i + 1, d + 1, lim, <<>>)
                ELSE ScanMembers(toks, i + 1, d + 1, lim, <<>>)
           [] OTHER -> Scan("JSONDecodeError", JNull, i)

\* post_data.decode('utf-8'): UnicodeDecodeError on bytes that are not UTF-8.
decode(bytes) ==
    IF \E i \in 1..Len(bytes) : bytes[i].k = "bad"
    THEN [exc |-> "UnicodeDecodeError", text |-> <<>>]
    ELSE [exc |-> "", text |-> bytes]

\* json.loads(text): one value, then nothing ("Extra data" otherwise).
loads(text) ==
    LET r == ScanValue(text, 1, 0, RecursionLimit) IN
    IF r.st # "ok" THEN [exc |-> r.st, val |-> JNull]
    ELSE IF r.next <= Len(text) THEN [exc |-> "JSONDecodeError", val |-> JNull]
    ELSE [exc |-> "", val |-> r.val]

---------------------------------------------------------------------------
(* The connection, as the handler drives it.                               *)

\* Nothing has been sent: no status line, no API handler called, the
\* static file server not entered.  result is the local 'response' of
\* handle_api_post, the dict a handler returned.
NewConn == [responses |-> <<>>, called |-> <<>>, delegated |-> FALSE,
            result |-> JNull]

Reason(text, err) == [text |-> text, err |-> err]
H(name, value) == [name |-> name, value |-> value]
NoBody == [kind |-> "none", text |-> <<>>]

\* self.send_response(code, message): one status line.
send_response(c, code, reason) ==
    [c EXCEPT !.responses = Append(@, [code |-> code, reason |-> reason,
                                       headers |-> <<>>, ended |-> FALSE,
                                       body |-> NoBody])]

\* self.send_header(name, value), on the response being written
send_header(c, name, value) ==
    [c EXCEPT !.responses[Len(c.responses)].headers = Append(@, H(name, value))]

\* BaseHTTPRequestHandler.end_headers: the header block is closed and flushed
super_end_headers(c) ==
    [c EXCEPT !.responses[Len(c.responses)].ended = TRUE]

\* self.wfile.write(...)
write(c, body) ==
    [c EXCEPT !.responses[Len(c.responses)].body = body]

end_headers_without_expires(c) ==
    super_end_headers(
      send_header(
        send_header(
          send_header(
            send_header(
              send_header(c, "Access-Control-Allow-Origin", "*"),
              "Access-Control-Allow-Methods", "GET, POST, PUT, DELETE, OPTIONS"),
            "Access-Control-Allow-Headers", "Content-Type, Authorization"),
          "Cache-Control", "no-cache, no-store, must-revalidate"),
        "Pragma", "no-cache"))

\* AthleteAIHandler.end_headers: the six headers, then the base class
end_headers(c) ==
    super_end_headers(
      send_header(
        send_header(
          send_header(
            send_header(
              send_header(
                send_header(c, "Access-Control-Allow-Origin", "*"),
                "Access-Control-Allow-Methods", "GET, POST, PUT, DELETE, OPTIONS"),
              "Access-Control-Allow-Headers", "Content-Type, Authorization"),
            "Cache-Control", "no-cache, no-store, must-revalidate"),
          "Pragma", "no-cache"),
        "Expires", "0"))

\* self.send_error(code, message): a status line, the error page's headers,
\* self.end_headers() and the HTML error page.
send_error(c, code, reason) ==
    write(end_headers(
            send_header(
              send_header(send_response(c, code, reason), "Connection", "close"),
              "Content-Type", "text/html;charset=utf-8")),
          [kind |-> "html", text |-> <<>>])

\* send_json_response: status line and headers first, json.dumps after them;
\* an exception of json.dumps leaves with the 200 header block already sent.
send_json_response(c, data) ==
    LET sent == end_headers(send_header(send_response(c, 200, Reason("OK", "")),
                                        "Content-Type", "application/json"))
        d == dumps(data)
    IN  IF d.exc # "" THEN [exc |-> d.exc, conn |-> sent]
        ELSE [exc |-> "", conn |-> write(sent, [kind |-> "json", text |-> d.text])]

\* do_OPTIONS
do_OPTIONS(c) == end_headers(send_response(c, 200, Reason("OK", "")))

---------------------------------------------------------------------------
(* The clock.                                                              *)

\* f"{datetime.now().timestamp()}"
timestamp(t) == Str(t)
\* datetime.now().isoformat()
isoformat(t) == <<"T">> \o Str(t)

---------------------------------------------------------------------------
(* The API handlers.  Each returns the dict it builds, or the exception    *)
(* it raises.                                                              *)

Return(v) == [exc |-> "", val |-> v]
Raise(e) == [exc |-> e, val |-> JNull]

\* the demo table of handle_login
demo_users ==
    (EMAIL_ATHLETE :> [password |-> PASSWORD123, role |-> ROLE_ATHLETE, name |-> NAME_ATHLETE])
    @@ (EMAIL_COACH :> [password |-> PASSWORD123, role |-> ROLE_COACH, name |-> NAME_COACH])
    @@ (EMAIL_ADMIN :> [password |-> PASSWORD123, role |-> ROLE_ADMIN, name |-> NAME_ADMIN])

\* email in demo_users, for a hashable email
InDemoUsers(email) == email.t = "str" /\ email.s \in DOMAIN demo_users

InvalidCredentials ==
    JDict(<<KV(K_success, JFalse), KV(K_error, JStr(T_InvalidCredentials))>>)

LoginSuccess(email, t) ==
    JDict(<<KV(K_success, JTrue),
            KV(K_user, JDict(<<KV(K_id, JStr(USER_ \o SplitFirst(email.s, "@"))),
                               KV(K_email, email),
                               KV(K_name, JStr(demo_users[email.s].name)),
                               KV(K_role, JStr(demo_users[email.s].role))>>)),
            KV(K_token, JStr(DEMO_TOKEN_ \o timestamp(t)))>>)

\* the registrations recorded in the log: what a handler that kept them would read
Registered ==
    {<<Get(log[i].data, K_email, JNull), Get(log[i].data, K_password, JNull)>> :
        i \in {j \in 1..Len(log) :
                 /\ log[j].req.path = PATH_REGISTER
                 /\ log[j].result.t = "dict"
                 /\ Get(log[j].result, K_success, JFalse) = JTrue}}

handle_login_remembering(data, t) ==
    IF data.t # "dict" THEN Raise("AttributeError")
    ELSE LET email == Get(data, K_email, JStr(<<>>))
             password == Get(data, K_password, JStr(<<>>))
         IN  IF ~Hashable(email) THEN Raise("TypeError")
             ELSE IF InDemoUsers(email) /\ JStr(demo_users[email.s].password) = password
             THEN Return(LoginSuccess(email, t))
             ELSE IF <<email, password>> \in Registered
             THEN Return(JDict(<<KV(K_success, JTrue)>>))
             ELSE Return(InvalidCredentials)

handle_login_any_password(data, t) ==
    IF data.t # "dict" THEN Raise("AttributeError")
    ELSE LET email == Get(data, K_email, JStr(<<>>))
         IN  IF ~Hashable(email) THEN Raise("TypeError")
             ELSE IF InDemoUsers(email)
             THEN Return(LoginSuccess(email, t))
             ELSE Return(InvalidCredentials)

\* handle_login: data.get raises AttributeError unless data is a dict;
\* "email in demo_users" raises TypeError on an unhashable email.
handle_login(data, t) ==
    IF data.t # "dict" THEN Raise("AttributeError")
    ELSE LET email == Get(data, K_email, JStr(<<>>))
             password == Get(data, K_password, JStr(<<>>))
         IN  IF ~Hashable(email) THEN Raise("TypeError")
             ELSE IF InDemoUsers(email) /\ JStr(demo_users[email.s].password) = password
             THEN Return(LoginSuccess(email, t))
             ELSE Return(InvalidCredentials)

MissingRequiredFields ==
    JDict(<<KV(K_success, JFalse), KV(K_error, JStr(T_MissingRequiredFields))>>)

RegisterSuccess(name, email, role, t) ==
    JDict(<<KV(K_success, JTrue),
            KV(K_user, JDict(<<KV(K_id, JStr(USER_ \o timestamp(t))),
                               KV(K_name, name),
                               KV(K_email, email),
                               KV(K_role, role)>>))>>)

handle_register_fixed_role(data, t) ==
    IF data.t # "dict" THEN Raise("AttributeError")
    ELSE LET name == Get(data, K_name, JStr(<<>>))
             email == Get(data, K_email, JStr(<<>>))
             password == Get(data, K_password, JStr(<<>>))
         IN  IF ~Truthy(name) \/ ~Truthy(email) \/ ~Truthy(password)
             THEN Return(MissingRequiredFields)
             ELSE Return(RegisterSuccess(name, email, JStr(ROLE_ATHLETE), t))

\* handle_register
handle_register(data, t) ==
    IF data.t # "dict" THEN Raise("AttributeError")
    ELSE LET name == Get(data, K_name, JStr(<<>>))
             email == Get(data, K_email, JStr(<<>>))
             password == Get(data, K_password, JStr(<<>>))
             role == Get(data, K_role, JStr(ROLE_ATHLETE))
         IN  IF ~Truthy(name) \/ ~Truthy(email) \/ ~Truthy(password)
             THEN Return(MissingRequiredFields)
             ELSE Return(RegisterSuccess(name, email, role, t))

handle_training_session_echo(data, t) ==
    Return(JDict(<<KV(K_success, JTrue),
                   KV(K_sessionId, JStr(SESSION_ \o timestamp(t))),
                   KV(K_message, IF data.t = "dict" THEN JStr(T_SessionSaved) ELSE data)>>))

\* handle_training_session: data is not read
handle_training_session(data, t) ==
    Return(JDict(<<KV(K_success, JTrue),
                   KV(K_sessionId, JStr(SESSION_ \o timestamp(t))),
                   KV(K_message, JStr(T_SessionSaved))>>))

\* handle_ai_analysis: data is not read
handle_ai_analysis(data, t) ==
    Return(JDict(<<KV(K_success, JTrue),
                   KV(K_analysisId, JStr(ANALYSIS_ \o timestamp(t))),
                   KV(K_message, JStr(T_AnalysisSaved))>>))

---------------------------------------------------------------------------
(* The router.                                                             *)

Call(c, name) == [c EXCEPT !.called = Append(@, name)]

InternalServerError(e) == Reason("Internal server error: ", e)

\* the four POST routes of handle_api_post
PostRoutes == {PATH_LOGIN, PATH_REGISTER, PATH_SESSIONS, PATH_ANALYSIS}

HandlerOf(path) ==
    CASE path = PATH_LOGIN -> "handle_login"
      [] path = PATH_REGISTER -> "handle_register"
      [] path = PATH_SESSIONS -> "handle_training_session"
      [] path = PATH_ANALYSIS -> "handle_ai_analysis"
      [] OTHER -> ""

\* the dispatch of handle_api_post on self.path
Dispatch(path, data, t) ==
    CASE path = PATH_LOGIN -> handle_login(data, t)
      [] path = PATH_REGISTER -> handle_register(data, t)
      [] path = PATH_SESSIONS -> handle_training_session(data, t)
      [] path = PATH_ANALYSIS -> handle_ai_analysis(data, t)
      [] OTHER -> Raise("no route")

\* self.rfile.read(n) once it returns: n bytes, or everything up to the end of
\* the stream when n is negative or more than the client sent.
read(bytes, n) ==
    IF n < 0 \/ n >= Len(bytes) THEN bytes ELSE SubSeq(bytes, 1, n)

\* the try block of handle_api_get with its except clause
HealthBody(t) ==
    JDict(<<KV(K_status, JStr(T_healthy)), KV(K_timestamp, JStr(isoformat(t)))>>)

ConfigBody ==
    JDict(<<KV(K_appName, JStr(T_AthleteAI)),
            KV(K_version, JStr(T_Version)),
            KV(K_features, JDict(<<KV(K_aiTesting, JTrue),
                                   KV(K_faceRecognition, JTrue),
                                   KV(K_offlineMode, JTrue),
                                   KV(K_pwa, JTrue)>>))>>)

handle_api_get_prefix_match(c, path, t) ==
    LET c0 == Call(c, "handle_api_get")
        data == IF StartsWith(path, PATH_HEALTH) THEN HealthBody(t) ELSE ConfigBody
        sent == send_json_response(c0, data)
    IN  IF ~StartsWith(path, PATH_HEALTH) /\ path # PATH_CONFIG
        THEN send_error(c0, 404, Reason("API endpoint not found", ""))
        ELSE IF sent.exc # "" THEN send_error(sent.conn, 500, InternalServerError(sent.exc))
        ELSE sent.conn

\* handle_api_get
handle_api_get(c, path, t) ==
    LET c0 == Call(c, "handle_api_get")
        data == IF path = PATH_HEALTH THEN HealthBody(t) ELSE ConfigBody
        sent == send_json_response(c0, data)
    IN  IF path # PATH_HEALTH /\ path # PATH_CONFIG
        THEN send_error(c0, 404, Reason("API endpoint not found", ""))
        ELSE IF sent.exc # "" THEN send_error(sent.conn, 500, InternalServerError(sent.exc))
        ELSE sent.conn

\* What SimpleHTTPRequestHandler.do_GET may answer, whatever the directory
\* holds: the file, a redirect to a directory, not modified, not found.
StaticOutcomes == {"file", "redirect", "not modified", "not found"}

\* super().do_GET(): every answer of the static file server closes its
\* headers with self.end_headers().
super_do_GET(c, outcome) ==
    LET c0 == [c EXCEPT !.delegated = TRUE] IN
    CASE outcome = "file" ->
            write(end_headers(send_header(send_response(c0, 200, Reason("OK", "")),
                                          "Content-type", "application/octet-stream")),
                  [kind |-> "file", text |-> <<>>])
      [] outcome = "redirect" ->
            end_headers(send_header(send_response(c0, 301, Reason("Moved Permanently", "")),
                                    "Location", "/"))
      [] outcome = "not modified" ->
            end_headers(send_response(c0, 304, Reason("Not Modified", "")))
      [] OTHER -> send_error(c0, 404, Reason("File not found", ""))

\* do_GET
do_GET(c, path, t, outcome) ==
    IF StartsWith(path, API_PREFIX) THEN handle_api_get(c, path, t)
    ELSE super_do_GET(c, outcome)

\* handle_api_post, from the try to the except clauses.  bytes is what the
\* client has sent of the body when rfile.read returns.
handle_api_post(c, path, content_length, bytes, t) ==
    LET c0 == Call(c, "handle_api_post")
        n == int(content_length)
        post_data == read(bytes, n.n)
        text == decode(post_data)
        parsed == loads(text.text)
        response == Dispatch(path, parsed.val, t)
        c1 == [Call(c0, HandlerOf(path)) EXCEPT !.result = response.val]
        sent == send_json_response(c1, response.val)
    IN  IF n.exc # "" THEN send_error(c0, 500, InternalServerError(n.exc))
        ELSE IF text.exc # "" THEN send_error(c0, 500, InternalServerError(text.exc))
        ELSE IF parsed.exc = "JSONDecodeError" THEN send_error(c0, 400, Reason("Invalid JSON", ""))
        ELSE IF parsed.exc # "" THEN send_error(c0, 500, InternalServerError(parsed.exc))
        ELSE IF path \notin PostRoutes
        THEN send_error(c0, 404, Reason("API endpoint not found", ""))
        ELSE IF response.exc # ""
        THEN send_error(Call(c0, HandlerOf(path)), 500, InternalServerError(response.exc))
        ELSE IF sent.exc # "" THEN send_error(sent.conn, 500, InternalServerError(sent.exc))
        ELSE sent.conn

---------------------------------------------------------------------------
(* The requests a client may send.                                         *)

Request(method, path, content_length, body) ==
    [method |-> method, path |-> path, content_length |-> content_length, body |-> body]

NoRequest == Request("", <<>>, NoHeader, <<>>)

\* a list nested k deep: [], [[]], [[[]]], ...
RECURSIVE Nested(_)
Nested(k) == IF k <= 1 THEN JList(<<>>) ELSE JList(<<Nested(k - 1)>>)

\* a field the client leaves out of the object
Absent == [t |-> "absent", s |-> <<>>, items |-> <<>>, fields |-> <<>>]

EMAIL_UNKNOWN == <<"x", "@", "y">>

NameValues == {Absent, JStr(<<>>), JStr(<<"a">>), JNum(<<"0">>), Nested(RecursionLimit - 1)}
EmailValues == {Absent, JStr(EMAIL_ATHLETE), JStr(EMAIL_COACH), JStr(EMAIL_ADMIN),
                JStr(EMAIL_UNKNOWN), JStr(<<>>), JNull, JList(<<>>)}
PasswordValues == {Absent, JStr(PASSWORD123), JStr(<<"p">>), JStr(<<>>)}
RoleValues == {Absent, JStr(ROLE_COACH), JNull}

Field(k, v) == IF v = Absent THEN <<>> ELSE <<KV(k, v)>>

Object(name, email, password, role) ==
    JDict(Field(K_name, name) \o Field(K_email, email)
          \o Field(K_password, password) \o Field(K_role, role))

Objects ==
    {Object(n, e, p, r) : n \in NameValues, e \in EmailValues,
                          p \in PasswordValues, r \in RoleValues}

\* JSON texts that are not an object, and an object nested too deep to load
OtherValues ==
    {Nested(k) : k \in 1..(RecursionLimit + 1)}
    \cup {JStr(<<"s">>), JNum(<<"1">>), JNull, JTrue,
          JDict(<<KV(K_role, Nested(RecursionLimit))>>)}

\* bodies that are not JSON: empty, cut short, not JSON text, not UTF-8,
\* text after the value, a key given twice, brackets never closed
RECURSIVE Opening(_)
Opening(k) == IF k = 0 THEN <<>> ELSE <<P("[")>> \o Opening(k - 1)

TwiceEmail ==
    <<P("{"), Tok("str", K_email), P(":"), Tok("str", EMAIL_UNKNOWN), P(","),
      Tok("str", K_email), P(":"), Tok("str", EMAIL_COACH), P(","),
      Tok("str", K_password), P(":"), Tok("str", PASSWORD123), P("}")>>

OddBodies ==
    {<<>>, <<P("{")>>, <<Tok("junk", <<>>)>>, <<Tok("bad", <<>>)>>,
     <<P("{"), P("}"), Tok("junk", <<>>)>>, TwiceEmail, Opening(RecursionLimit + 1)}

\* bodies posted to every path
CommonBodies ==
    {Encode(v) : v \in OtherValues
                      \cup {JDict(<<>>),
                            Object(Absent, JStr(EMAIL_ATHLETE), JStr(PASSWORD123), Absent),
                            Object(JStr(<<"a">>), JStr(EMAIL_UNKNOWN), JStr(<<"p">>), Absent)}}
    \cup OddBodies

PostPaths ==
    PostRoutes \cup {API_PREFIX, PATH_LOGIN \o <<"/">>, <<"/", "a", "p", "i">>,
                     <<"/", "l", "o", "g", "i", "n">>}

GetPaths ==
    {PATH_HEALTH, PATH_CONFIG, API_PREFIX, PATH_LOGIN, PATH_HEALTH \o <<"z">>,
     PATH_CONFIG \o <<"/">>, <<"/", "a", "p", "i">>, <<"/">>,
     <<"/", "A", "P", "I", "/", "h", "e", "a", "l", "t", "h">>,
     <<"/", "x", "/", "a", "p", "i", "/", "h", "e", "a", "l", "t", "h">>}

\* Content-Length headers that do not give the length of the body
Misframed(body) ==
    {NoHeader, Header(<<"a", "b", "c">>), Header(<<"-", "1">>),
     Header(Str(Len(body) + 1)), Header(<<"+">> \o Str(Len(body)))}
    \cup (IF body = <<>> THEN {} ELSE {Header(Str(Len(body) - 1))})

MisframedBodies ==
    {Encode(Object(Absent, JStr(EMAIL_ATHLETE), JStr(PASSWORD123), Absent)),
     Encode(JDict(<<>>)), <<P("{")>>, <<>>}

PostRequests ==
    {Request("POST", p, Header(Str(Len(Encode(v)))), Encode(v)) : p \in PostRoutes, v \in Objects}
    \cup {Request("POST", p, Header(Str(Len(b))), b) : p \in PostPaths, b \in CommonBodies}
    \cup UNION {{Request("POST", p, h, b) : p \in PostPaths, h \in Misframed(b)} :
                  b \in MisframedBodies}

GetRequests == {Request("GET", p, NoHeader, <<>>) : p \in GetPaths}

OptionsRequests == {Request("OPTIONS", p, NoHeader, <<>>) : p \in {PATH_LOGIN, <<"/">>, <<"*">>}}

Requests == PostRequests \cup GetRequests \cup OptionsRequests

\* The requests of the runs that keep a log: logins and registrations that
\* share e-mail addresses and passwords, and session and analysis posts that
\* differ in their body alone.
Framed(path, v) == Request("POST", path, Header(Str(Len(Encode(v)))), Encode(v))

LoggedRequests ==
    {Framed(PATH_LOGIN, Object(Absent, JStr(EMAIL_ATHLETE), JStr(PASSWORD123), Absent)),
     Framed(PATH_LOGIN, Object(Absent, JStr(EMAIL_UNKNOWN), JStr(<<"p">>), Absent)),
     Framed(PATH_REGISTER, Object(JStr(<<"a">>), JStr(EMAIL_ATHLETE), JStr(<<"p">>), Absent)),
     Framed(PATH_REGISTER, Object(JStr(<<"a">>), JStr(EMAIL_UNKNOWN), JStr(<<"p">>), Absent)),
     Framed(PATH_REGISTER, Object(Absent, JStr(EMAIL_UNKNOWN), JStr(<<"p">>), Absent)),
     Framed(PATH_REGISTER, Object(Nested(RecursionLimit - 1), JStr(EMAIL_COACH), JStr(<<"p">>), Absent)),
     Framed(PATH_SESSIONS, JNull),
     Framed(PATH_SESSIONS, Object(JStr(<<"a">>), Absent, Absent, Absent)),
     Framed(PATH_SESSIONS, Nested(RecursionLimit + 1)),
     Framed(PATH_ANALYSIS, JDict(<<>>)),
     Request("POST", PATH_SESSIONS, Header(<<"2">>), <<P("{")>>),
     Request("GET", PATH_HEALTH, NoHeader, <<>>),
     Request("OPTIONS", PATH_LOGIN, NoHeader, <<>>)}

---------------------------------------------------------------------------
(* The server: socketserver.TCPServer handles one request at a time, to    *)
(* completion.                                                             *)

Init ==
    /\ pc = "idle"
    /\ req = NoRequest
    /\ eof = FALSE
    /\ conn = NewConn
    /\ now = 0
    /\ log = <<>>

\* A request arrives and its handler object is built.
Accept(r) ==
    /\ pc = "idle"
    /\ Len(log) < MaxLog
    /\ pc' = "handle"
    /\ req' = r
    /\ eof' = FALSE
    /\ conn' = NewConn
    /\ UNCHANGED <<now, log>>

AcceptAny == \E r \in Requests : Accept(r)

AcceptLogged == \E r \in LoggedRequests : Accept(r)

\* Time passes between requests.
Tick ==
    /\ pc = "idle"
    /\ now < MaxClock
    /\ now' = now + 1
    /\ UNCHANGED <<pc, req, eof, conn, log>>

DoOptions ==
    /\ pc = "handle"
    /\ req.method = "OPTIONS"
    /\ conn' = do_OPTIONS(conn)
    /\ pc' = "done"
    /\ UNCHANGED <<req, eof, now, log>>

DoGet ==
    /\ pc = "handle"
    /\ req.method = "GET"
    /\ \E outcome \in StaticOutcomes : conn' = do_GET(conn, req.path, now, outcome)
    /\ pc' = "done"
    /\ UNCHANGED <<req, eof, now, log>>

\* do_POST: to handle_api_post under /api/, 404 otherwise
DoPost ==
    /\ pc = "handle"
    /\ req.method = "POST"
    /\ IF StartsWith(req.path, API_PREFIX)
       THEN pc' = "api_post" /\ conn' = conn
       ELSE pc' = "done" /\ conn' = send_error(conn, 404, Reason("Not Found", ""))
    /\ UNCHANGED <<req, eof, now, log>>

\* rfile.read(content_length) returns once that many bytes have arrived or
\* the client has shut its side down; a negative length reads to the end of
\* the stream.  When int(...) raises, nothing is read.
ReadReturns ==
    LET n == int(req.content_length) IN
    \/ n.exc # ""
    \/ n.n >= 0 /\ Len(req.body) >= n.n
    \/ eof

HandleApiPost ==
    /\ pc = "api_post"
    /\ ReadReturns
    /\ conn' = handle_api_post(conn, req.path, req.content_length, req.body, now)
    /\ pc' = "done"
    /\ UNCHANGED <<req, eof, now, log>>

\* The client, left without an answer, gives up and shuts down its sending
\* side: the read that waits for it returns what has arrived.
ClientShutdown ==
    /\ pc = "api_post"
    /\ ~ReadReturns
    /\ eof' = TRUE
    /\ UNCHANGED <<pc, req, conn, now, log>>

\* The handler returns and the connection is closed.
Finish ==
    /\ pc = "done"
    /\ pc' = "idle"
    /\ req' = NoRequest
    /\ eof' = FALSE
    /\ conn' = NewConn
    /\ UNCHANGED <<now, log>>

\* the body as json.loads read it in handle_api_post (null when it did not)
DataOf(r) ==
    LET n == int(r.content_length)
        text == decode(read(r.body, n.n))
    IN  IF n.exc # "" \/ text.exc # "" THEN JNull ELSE loads(text.text).val

\* The same, with the exchange appended to the log.
FinishLogged ==
    /\ pc = "done"
    /\ pc' = "idle"
    /\ log' = Append(log, [req |-> req, eof |-> eof, t |-> now, data |-> DataOf(req),
                           responses |-> conn.responses, result |-> conn.result])
    /\ req' = NoRequest
    /\ eof' = FALSE
    /\ conn' = NewConn
    /\ UNCHANGED now

ServerStep == DoOptions \/ DoGet \/ DoPost \/ HandleApiPost

Next ==
    \/ AcceptAny
    \/ Tick
    \/ DoOptions
    \/ DoGet
    \/ DoPost
    \/ HandleApiPost
    \/ ClientShutdown
    \/ Finish

Spec == Init /\ [][Next]_vars

NextLogged ==
    \/ AcceptLogged
    \/ Tick
    \/ DoOptions
    \/ DoGet
    \/ DoPost
    \/ HandleApiPost
    \/ ClientShutdown
    \/ FinishLogged

SpecLogged == Init /\ [][NextLogged]_vars

---------------------------------------------------------------------------
(* What a client sees, and what it sent.                                   *)

\* the value a client reads from a JSON body, whatever its depth
ClientParse(text) ==
    LET r == ScanValue(text, 1, 0, Len(text)) IN
    IF r.st = "ok" /\ r.next = Len(text) + 1 THEN r.val ELSE Absent

\* the body is JSON text / a JSON object, by the grammar alone
IsJsonText(body) ==
    /\ \A i \in 1..Len(body) : body[i].k # "bad"
    /\ ClientParse(body) # Absent

\* the Content-Length header gives the length of the body
WellFramed(r) ==
    LET n == int(r.content_length) IN n.exc = "" /\ n.n = Len(r.body)

\* the responses are one response with this status line
Answered(rs, code, text) ==
    /\ Len(rs) = 1
    /\ rs[1].code = code
    /\ rs[1].reason.text = text
    /\ rs[1].ended

\* the JSON value of a lone 200 application/json response (Absent otherwise)
JsonAnswer(rs) ==
    IF /\ Answered(rs, 200, "OK")
       /\ rs[1].body.kind = "json"
       /\ \E i \in 1..Len(rs[1].headers) : rs[1].headers[i] = H("Content-Type", "application/json")
    THEN ClientParse(rs[1].body.text)
    ELSE Absent

InjectedHeaders ==
    {H("Access-Control-Allow-Origin", "*"),
     H("Access-Control-Allow-Methods", "GET, POST, PUT, DELETE, OPTIONS"),
     H("Access-Control-Allow-Headers", "Content-Type, Authorization"),
     H("Cache-Control", "no-cache, no-store, must-revalidate"),
     H("Pragma", "no-cache"),
     H("Expires", "0")}

Carries(r, h) == \E i \in 1..Len(r.headers) : r.headers[i] = h

DemoEmails == {EMAIL_ATHLETE, EMAIL_COACH, EMAIL_ADMIN}

\* the role, name and id the demo table gives an address, written out
ExpectedRole(e) ==
    CASE e = EMAIL_ATHLETE -> <<"a", "t", "h", "l", "e", "t", "e">>
      [] e = EMAIL_COACH -> <<"c", "o", "a", "c", "h">>
      [] OTHER -> <<"a", "d", "m", "i", "n">>
ExpectedName(e) == <<"D", "e", "m", "o", " ">> \o
    (CASE e = EMAIL_ATHLETE -> <<"A", "t", "h", "l", "e", "t", "e">>
       [] e = EMAIL_COACH -> <<"C", "o", "a", "c", "h">>
       [] OTHER -> <<"A", "d", "m", "i", "n">>)
ExpectedId(e) == <<"u", "s", "e", "r", "_">> \o ExpectedRole(e)

\* a JSON value Python treats as false
Falsy(v) == v \in {JStr(<<>>), JNum(<<"0">>), JFalse, JNull, JList(<<>>), JDict(<<>>)}

PostDone(path) == pc = "done" /\ req.method = "POST" /\ req.path = path

---------------------------------------------------------------------------
(* C1.  Exactly one response per request, and handling always ends.        *)

\* C1: whatever the request, when its handling has ended exactly one status
\* line has been sent on the connection (never none, never two).
C1_ExactlyOneResponse ==
    pc = "done" => Len(conn.responses) = 1 /\ conn.responses[1].ended

\* C1, the other half: a handler that has started is never left waiting;
\* it can always take its next step.
C1_HandlingNeverWaits ==
    pc \in {"handle", "api_post"} => ENABLED ServerStep

---------------------------------------------------------------------------
(* C2.  The injected headers.                                              *)

\* C2: every response the handler has finished, of any status, carries the
\* six CORS and no-cache headers, and none is left with its headers open.
C2_EveryResponseCarriesInjectedHeaders ==
    \A i \in 1..Len(conn.responses) :
        /\ conn.responses[i].ended
        /\ \A h \in InjectedHeaders : Carries(conn.responses[i], h)

\* an error answer of handle_api_post has been sent
C2_Witness ==
    /\ pc = "done"
    /\ Answered(conn.responses, 400, "Invalid JSON")
    /\ \A h \in InjectedHeaders : Carries(conn.responses[1], h)

---------------------------------------------------------------------------
(* C3.  Login.                                                             *)

\* the body of the request as handle_api_post parsed it
SuppliedEmail == Get(DataOf(req), K_email, JStr(<<>>))
SuppliedPassword == Get(DataOf(req), K_password, JStr(<<>>))

DemoCredentials ==
    /\ DataOf(req).t = "dict"
    /\ SuppliedEmail.t = "str"
    /\ SuppliedEmail.s \in DemoEmails
    /\ SuppliedPassword = JStr(<<"p", "a", "s", "s", "w", "o", "r", "d", "1", "2", "3">>)

\* C3: a login is answered success:true exactly when the e-mail is a demo
\* key and the password is that entry's; the user then has the entry's role
\* and name, the supplied e-mail, the id user_<local part> and a token that
\* starts with demo_token_.
C3_LoginSucceedsIffDemoCredentials ==
    PostDone(PATH_LOGIN) =>
        LET body == JsonAnswer(conn.responses)
            user == Get(body, K_user, Absent)
            token == Get(body, K_token, Absent)
        IN  /\ (Get(body, K_success, Absent) = JTrue) <=> DemoCredentials
            /\ DemoCredentials =>
                  /\ Get(user, K_role, Absent) = JStr(ExpectedRole(SuppliedEmail.s))
                  /\ Get(user, K_name, Absent) = JStr(ExpectedName(SuppliedEmail.s))
                  /\ Get(user, K_email, Absent) = SuppliedEmail
                  /\ Get(user, K_id, Absent) = JStr(ExpectedId(SuppliedEmail.s))
                  /\ token.t = "str"
                  /\ StartsWith(token.s, <<"d", "e", "m", "o", "_", "t", "o", "k", "e", "n", "_">>)

\* the coach has logged in
C3_Witness ==
    /\ PostDone(PATH_LOGIN)
    /\ SuppliedEmail = JStr(EMAIL_COACH)
    /\ Get(JsonAnswer(conn.responses), K_success, Absent) = JTrue

---------------------------------------------------------------------------
(* C4.  Business failures are answered 200.                                *)

\* C4: a JSON object posted to login with an e-mail that is no demo key or a
\* password that does not match is answered 200 with Invalid credentials; one
\* posted to register with name, e-mail or password empty or missing is
\* answered 200 with Missing required fields.
C4_BusinessFailuresAnswered200 ==
    /\ (/\ PostDone(PATH_LOGIN) /\ WellFramed(req) /\ DataOf(req).t = "dict"
        /\ ~DemoCredentials)
         => JsonAnswer(conn.responses) = InvalidCredentials
    /\ (/\ PostDone(PATH_REGISTER) /\ WellFramed(req) /\ DataOf(req).t = "dict"
        /\ \E k \in {K_name, K_email, K_password} :
               Get(DataOf(req), k, JStr(<<>>)) = JStr(<<>>))
         => JsonAnswer(conn.responses) = MissingRequiredFields

---------------------------------------------------------------------------
(* C5.  Register.                                                          *)

RegisterFields == {K_name, K_email, K_password}

RegisterResultIsSuccess ==
    LET data == DataOf(req)
        user == Get(conn.result, K_user, Absent)
        id == Get(user, K_id, Absent)
    IN  /\ Get(conn.result, K_success, Absent) = JTrue
        /\ Get(user, K_name, Absent) = Get(data, K_name, Absent)
        /\ Get(user, K_email, Absent) = Get(data, K_email, Absent)
        /\ Get(user, K_role, Absent) =
              Get(data, K_role, JStr(<<"a", "t", "h", "l", "e", "t", "e">>))
        /\ id.t = "str"
        /\ StartsWith(id.s, <<"u", "s", "e", "r", "_">>)

\* C5 as stated: the register handler returns Missing required fields exactly
\* when name, e-mail or password is the empty string or missing, and otherwise
\* success with the supplied name, e-mail and role.
C5_MissingIffEmptyOrMissing ==
    (PostDone(PATH_REGISTER) /\ DataOf(req).t = "dict") =>
        LET missing == \E k \in RegisterFields : Get(DataOf(req), k, JStr(<<>>)) = JStr(<<>>)
        IN  /\ (conn.result = MissingRequiredFields) <=> missing
            /\ ~missing => RegisterResultIsSuccess

\* C5 as amended: the register handler returns Missing required fields exactly
\* when name, e-mail or password is missing or a value Python treats as false
\* (empty string, 0, false, null, empty array or object), and otherwise
\* success with the supplied name, e-mail and role (athlete when omitted) and
\* an id that starts with user_.
C5_MissingIffFalsyOrMissing ==
    (PostDone(PATH_REGISTER) /\ DataOf(req).t = "dict") =>
        LET missing == \E k \in RegisterFields :
                           ~HasKey(DataOf(req), k) \/ Falsy(Get(DataOf(req), k, Absent))
        IN  /\ (conn.result = MissingRequiredFields) <=> missing
            /\ ~missing => RegisterResultIsSuccess

\* a registration with a role of its own has succeeded
C5_Witness ==
    /\ PostDone(PATH_REGISTER)
    /\ WellFramed(req)
    /\ HasKey(DataOf(req), K_role)
    /\ RegisterResultIsSuccess
    /\ Get(JsonAnswer(conn.responses), K_success, Absent) = JTrue

---------------------------------------------------------------------------
(* C6.  Bodies that do not parse.                                          *)

\* C6: a POST under /api/ whose body is not JSON text (malformed, not UTF-8
\* or empty) is answered 400 Invalid JSON, and no handler has run.
C6_UnparsableBodyAnswered400 ==
    (/\ pc = "done" /\ req.method = "POST" /\ StartsWith(req.path, API_PREFIX)
     /\ WellFramed(req) /\ ~IsJsonText(req.body))
      => /\ Answered(conn.responses, 400, "Invalid JSON")
         /\ conn.called = <<"handle_api_post">>

---------------------------------------------------------------------------
(* C7.  POSTs to unknown paths.                                            *)

\* C7: a POST under /api/ to none of the four routes is answered 404 API
\* endpoint not found whatever its body and Content-Length; a POST outside
\* /api/ is answered 404 Not Found and its body is neither read nor parsed.
C7_UnknownPostAnswered404 ==
    (pc = "done" /\ req.method = "POST") =>
        /\ (StartsWith(req.path, API_PREFIX) /\ req.path \notin PostRoutes)
              => Answered(conn.responses, 404, "API endpoint not found")
        /\ ~StartsWith(req.path, API_PREFIX)
              => Answered(conn.responses, 404, "Not Found") /\ conn.called = <<>>

---------------------------------------------------------------------------
(* C8.  GET dispatch.                                                      *)

\* C8: GET /api/health is answered 200 with status healthy and a timestamp,
\* GET /api/config 200 with the fixed configuration, any other path under
\* /api/ 404 API endpoint not found without the static file server, and any
\* path outside /api/ goes to the static file server and to no API handler.
C8_GetDispatchIsAPartition ==
    (pc = "done" /\ req.method = "GET") =>
        LET body == JsonAnswer(conn.responses)
            features == Get(body, K_features, Absent)
        IN  /\ req.path = <<"/", "a", "p", "i", "/", "h", "e", "a", "l", "t", "h">> =>
                  /\ Get(body, K_status, Absent) = JStr(<<"h", "e", "a", "l", "t", "h", "y">>)
                  /\ Get(body, K_timestamp, Absent).t = "str"
                  /\ Get(body, K_timestamp, Absent).s # <<>>
                  /\ ~conn.delegated
            /\ req.path = <<"/", "a", "p", "i", "/", "c", "o", "n", "f", "i", "g">> =>
                  /\ Get(body, K_appName, Absent) = JStr(<<"A", "t", "h", "l", "e", "t", "e", "A", "I">>)
                  /\ Get(body, K_version, Absent) = JStr(<<"1", ".", "0", ".", "0">>)
                  /\ Len(features.fields) = 4
                  /\ \A k \in {K_aiTesting, K_faceRecognition, K_offlineMode, K_pwa} :
                        Get(features, k, Absent) = JTrue
                  /\ ~conn.delegated
            /\ (/\ StartsWith(req.path, <<"/", "a", "p", "i", "/">>)
                /\ req.path \notin {PATH_HEALTH, PATH_CONFIG}) =>
                  /\ Answered(conn.responses, 404, "API endpoint not found")
                  /\ ~conn.delegated
            /\ ~StartsWith(req.path, <<"/", "a", "p", "i", "/">>) =>
                  /\ conn.delegated
                  /\ conn.called = <<>>
                  /\ Len(conn.responses) = 1

\* a path that only begins like /api/health has been refused
C8_Witness ==
    /\ pc = "done"
    /\ req.method = "GET"
    /\ req.path = PATH_HEALTH \o <<"z">>
    /\ Answered(conn.responses, 404, "API endpoint not found")

---------------------------------------------------------------------------
(* C9.  Session and analysis posts ignore the body.                        *)

IgnoringRoutes == {PATH_SESSIONS, PATH_ANALYSIS}

\* the logged exchange is a well-framed POST of JSON text to one of the two
JsonPosted(e) ==
    /\ e.req.method = "POST"
    /\ e.req.path \in IgnoringRoutes
    /\ WellFramed(e.req)
    /\ IsJsonText(e.req.body)

\* json.loads accepts the body: it nests no deeper than the recursion limit
Loadable(e) == Depth(ClientParse(e.req.body)) <= RecursionLimit

\* the answer is the fixed success of the route, with an id of its prefix
SavedAnswer(e) ==
    LET body == JsonAnswer(e.responses)
        session == e.req.path = PATH_SESSIONS
        id == Get(body, IF session THEN K_sessionId ELSE K_analysisId, Absent)
    IN  /\ Get(body, K_success, Absent) = JTrue
        /\ Get(body, K_message, Absent) =
              IF session
              THEN JStr(<<"T", "r", "a", "i", "n", "i", "n", "g", " ", "s", "e", "s", "s", "i", "o", "n", " ",
                          "s", "a", "v", "e", "d", " ", "s", "u", "c", "c", "e", "s", "s", "f", "u", "l", "l", "y">>)
              ELSE JStr(<<"A", "I", " ", "a", "n", "a", "l", "y", "s", "i", "s", " ",
                          "s", "a", "v", "e", "d", " ", "s", "u", "c", "c", "e", "s", "s", "f", "u", "l", "l", "y">>)
        /\ id.t = "str"
        /\ StartsWith(id.s, IF session THEN <<"s", "e", "s", "s", "i", "o", "n", "_">>
                            ELSE <<"a", "n", "a", "l", "y", "s", "i", "s", "_">>)
        /\ Len(body.fields) = 3

\* the answer with the identifier taken out
WithoutId(e) ==
    LET body == JsonAnswer(e.responses) IN
    [code |-> e.responses[1].code, headers |-> e.responses[1].headers,
     fields |-> SelectSeq(body.fields, LAMBDA f : f.k \notin {K_sessionId, K_analysisId})]

---------------------------------------------------------------------------
(* C10.  No state is kept between requests.                                *)

IsApi(r) == r.method # "GET" \/ StartsWith(r.path, API_PREFIX)

Succeeded(e) == Get(JsonAnswer(e.responses), K_success, Absent) = JTrue

\* C10: the answer to an API request depends on the request and the clock
\* alone; a login succeeds only with demo credentials, whatever has been
\* registered before it; and the register handler accepts a demo address.
C10_NoStateAcrossRequests ==
    \A i, j \in 1..Len(log) :
        /\ (/\ log[i].req = log[j].req /\ log[i].eof = log[j].eof /\ log[i].t = log[j].t
            /\ IsApi(log[i].req))
              => log[i].responses = log[j].responses
        /\ (log[j].req.path = PATH_LOGIN /\ Succeeded(log[j]))
              => /\ Get(log[j].data, K_email, Absent).s \in DemoEmails
                 /\ Get(log[j].data, K_password, Absent) =
                       JStr(<<"p", "a", "s", "s", "w", "o", "r", "d", "1", "2", "3">>)
        /\ (/\ log[i].req.path = PATH_REGISTER /\ log[i].data.t = "dict"
            /\ Get(log[i].data, K_email, Absent).s \in DemoEmails
            /\ \A k \in RegisterFields : ~Falsy(Get(log[i].data, k, JNull)))
              => Get(log[i].result, K_success, Absent) = JTrue

\* an address was registered, and the login with it was then refused
C10_Witness ==
    /\ Len(log) >= 2
    /\ log[1].req.path = PATH_REGISTER /\ Succeeded(log[1])
    /\ log[2].req.path = PATH_LOGIN
    /\ Get(log[1].data, K_email, Absent) = Get(log[2].data, K_email, Absent)
    /\ Get(log[1].data, K_password, Absent) = Get(log[2].data, K_password, Absent)
    /\ JsonAnswer(log[2].responses) = InvalidCredentials

====
